---- MODULE Spec2Model ----
(***************************************************************************)
(* Model of the content-extraction core of the two slide generators        *)
(* scripts/markdown_to_ppt.py and scripts/markdown_to_pandoc.py:           *)
(*   - fetch_og_image_from_url : the retrying og:image fetcher             *)
(*   - parse_markdown_file     : the section extractor                     *)
(*   - create_cover_slide / create_cover_slide_markdown : the image filter *)
(* Text is a sequence of tokens; a token is one character, or one literal  *)
(* label of the source ("Article Date", ...) that the code only ever       *)
(* matches as a whole.  "\n" is the line separator.                        *)
(***************************************************************************)
EXTENDS Integers, Sequences, FiniteSets, TLC

VARIABLES
    impl,      \* which script runs: "ppt" or "pandoc"
    content,   \* parse_markdown_file: the text read from the file
    pc,        \* parse_markdown_file: position of the extraction
    rec,       \* parse_markdown_file: the locals / the returned record
    calls,     \* number of calls of fetch_og_image_from_url made by the extraction
    web,       \* the outcomes the remote server can produce for one GET
    fpc,       \* fetch_og_image_from_url: position ("idle","try","sleep","done","raised")
    attempt,   \* fetch_og_image_from_url: loop variable of `for attempt in range(max_retries)`
    fResult,   \* fetch_og_image_from_url: returned value ("None" is Python's None)
    log,       \* history of the fetcher: GETs issued and sleeps performed, in order
    cover,     \* create_cover_slide: the image put on the cover slide
    mdText,    \* parse_markdown_formatting: the argument text_with_markdown
    frame,     \* parse_markdown_formatting: the paragraphs of text_frame, each a sequence of runs
    frame2,    \* the paragraphs after formatting the plain text of `frame` once more
    tpc,       \* position of the formatter ("off","input","rendered","again")
    files,     \* main: what the processing of each file of markdown_files does, in sorted order
    mi,        \* main: index of the next file of `for md_file in markdown_files`
    deck,      \* main: the slides in shared_prs / pandoc_content, in order
    processed_count, \* main: processed_count
    saved,     \* main: "pending" in the loop, then "saved" or "none"
    mpc        \* position of main ("off","loop","done")

fmtVars == <<mdText, frame, frame2, tpc>>

mainVars == <<files, mi, deck, processed_count, saved, mpc>>

vars == <<impl, content, pc, rec, calls, web, fpc, attempt, fResult, log, cover, mdText, frame, frame2, tpc,
          files, mi, deck, processed_count, saved, mpc>>

Impls == {"ppt", "pandoc"}

None == "None"

(***************************************************************************)
(* Bounds of the model                                                     *)
(***************************************************************************)
MaxTags == 2      \* meta tags in one response body
MaxChunks == 3    \* chunks (one or two lines each) in one document with link and image
MaxBodyChunks == 3 \* chunks in one document of focal points and notes
MaxPieces == 4    \* pieces (a marker, a character, a bracket group) in one formatted text
MaxFiles == 3     \* files in markdown_files

(***************************************************************************)
(* Generic helpers on sequences                                            *)
(***************************************************************************)
RECURSIVE SeqsUpTo(_, _)
SeqsUpTo(S, n) ==
    IF n = 0 THEN {<<>>}
    ELSE LET shorter == SeqsUpTo(S, n - 1)
         IN  shorter \cup {Append(s, x) : s \in {t \in shorter : Len(t) = n - 1}, x \in S}

RECURSIVE Pow2(_)
Pow2(n) == IF n = 0 THEN 1 ELSE 2 * Pow2(n - 1)


(***************************************************************************)
(* Text: str operations of Python on token sequences                       *)
(***************************************************************************)
NL == "\n"

\* str.strip() removes blanks and line breaks
IsSpace(t) == t \in {" ", NL}

RECURSIVE LStrip(_)
LStrip(s) == IF s # <<>> /\ IsSpace(Head(s)) THEN LStrip(Tail(s)) ELSE s

RECURSIVE RStrip(_)
RStrip(s) == IF s # <<>> /\ IsSpace(s[Len(s)]) THEN RStrip(SubSeq(s, 1, Len(s) - 1)) ELSE s

Strip(s) == RStrip(LStrip(s))

\* s[m:] and s[a:b] with 1-based inclusive bounds; empty when the bounds cross
Slice(s, a, b) == IF a > b \/ a > Len(s) THEN <<>> ELSE SubSeq(s, a, IF b > Len(s) THEN Len(s) ELSE b)
From(s, a) == Slice(s, a, Len(s))

StartsWith(s, pre) == Len(s) >= Len(pre) /\ SubSeq(s, 1, Len(pre)) = pre
EndsWith(s, suf) == Len(s) >= Len(suf) /\ SubSeq(s, Len(s) - Len(suf) + 1, Len(s)) = suf
OccursAt(s, pat, p) == p >= 1 /\ p + Len(pat) - 1 <= Len(s) /\ SubSeq(s, p, p + Len(pat) - 1) = pat

\* str.find(pat, start): the first position >= from at which pat occurs, 0 when none
RECURSIVE Find(_, _, _)
Find(s, pat, from) ==
    IF from + Len(pat) - 1 > Len(s) THEN 0
    ELSE IF OccursAt(s, pat, from) THEN from
    ELSE Find(s, pat, from + 1)
Contains(s, pat) == Find(s, pat, 1) # 0

\* str.split('\n')
RECURSIVE SplitLines(_)
SplitLines(s) ==
    LET k == Find(s, <<NL>>, 1)
    IN  IF k = 0 THEN <<s>> ELSE <<Slice(s, 1, k - 1)>> \o SplitLines(From(s, k + 1))

\* '\n'.join(lines)
RECURSIVE JoinLines(_)
JoinLines(ls) ==
    IF ls = <<>> THEN <<>>
    ELSE IF Len(ls) = 1 THEN ls[1]
    ELSE ls[1] \o <<NL>> \o JoinLines(Tail(ls))

\* the least element of a non-empty set of integers, 0 for the empty set
MinOrZero(S) == IF S = {} THEN 0 ELSE CHOOSE x \in S : \A y \in S : x <= y

(***************************************************************************)
(* fetch_og_image_from_url                                                 *)
(***************************************************************************)
\* max_retries: keyword default in markdown_to_ppt.py, local in markdown_to_pandoc.py
MaxRetries == 3

\* retry_delay: keyword default in markdown_to_ppt.py
RetryDelay == 1

\* delays = [1, 2, 4] in markdown_to_pandoc.py
Delays == <<1, 2, 4>>

Placeholder == "https://github.blog/changelog/"

ImageUrls == {"img1", "img2", Placeholder}

\* One <meta ...> tag of a response body.  form is the textual shape of the tag:
\*   "prop_content"  <meta property="og:image" content="U">
\*   "content_prop"  <meta content="U" property="og:image">
\*   "upper"         <META PROPERTY="OG:IMAGE" CONTENT="U">
\*   "og_title"      <meta property="og:title" content="U">
\*   "extra_attr"    <meta name="x" property="og:image" content="U">
\*   "empty"         <meta property="og:image" content="">
TagPool ==
    { [form |-> "prop_content", url |-> "img1"],
      [form |-> "content_prop", url |-> "img2"],
      [form |-> "upper",        url |-> Placeholder],
      [form |-> "og_title",     url |-> "img2"],
      [form |-> "extra_attr",   url |-> "img1"],
      [form |-> "empty",        url |-> ""] }

Bodies == SeqsUpTo(TagPool, MaxTags)

\* What one GET can do: raise (URLError, socket timeout) or deliver a body.
ExcOutcomes == { [type |-> "URLError", body |-> <<>>], [type |-> "timeout", body |-> <<>>] }
RespOutcomes == { [type |-> "resp", body |-> b] : b \in Bodies }
Outcomes == ExcOutcomes \cup RespOutcomes

\* First alternative of the pattern: property=og:image then content=([^"']+), re.IGNORECASE
Group1(tag) == IF tag.form \in {"prop_content", "upper"} /\ tag.url # "" THEN tag.url ELSE ""

\* Second alternative of the pattern: content=([^"']+) then property=og:image
Group2(tag) == IF tag.form = "content_prop" /\ tag.url # "" THEN tag.url ELSE ""

\* og_image_match.group(1) or og_image_match.group(2)
MatchValue(tag) == IF Group1(tag) # "" THEN Group1(tag) ELSE Group2(tag)

\* re.search: the leftmost place of the body where one of the alternatives matches
RECURSIVE OgImageSearchLast(_)
OgImageSearchLast(body) ==
    IF body = <<>> THEN None
    ELSE IF MatchValue(body[Len(body)]) # "" THEN MatchValue(body[Len(body)])
    ELSE OgImageSearchLast(SubSeq(body, 1, Len(body) - 1))
RECURSIVE OgImageSearch(_)
OgImageSearch(body) ==
    IF body = <<>> THEN None
    ELSE IF MatchValue(Head(body)) # "" THEN MatchValue(Head(body))
    ELSE OgImageSearch(Tail(body))

\* except (URLError, Exception): which exceptions of the GET the handler catches
CaughtOnlyUrlError(type) == type = "URLError"
Caught(type) == type \in {"URLError", "timeout"}

\* if attempt < max_retries - 1: sleep and continue, else pass
RetriesRemain(a) == a < MaxRetries - 1

\* wait_time = retry_delay * (2 ** attempt)  /  delay = delays[attempt]
WaitTimeConstant(i, a) == RetryDelay
WaitTime(i, a) == IF i = "ppt" THEN RetryDelay * Pow2(a) ELSE Delays[a + 1]

\* What follows a response without an og:image tag:
\*   markdown_to_ppt.py    `return None` inside the with block
\*   markdown_to_pandoc.py falls out of the try block into the next iteration
NoMatchPoliteRetry(i, a) ==
    IF a < MaxRetries - 1 THEN [fpc |-> "sleep", attempt |-> a] ELSE [fpc |-> "done", attempt |-> a]
NoMatchNext(i, a) ==
    IF i = "ppt" THEN [fpc |-> "done", attempt |-> a]
    ELSE IF a + 1 < MaxRetries THEN [fpc |-> "try", attempt |-> a + 1]
    ELSE [fpc |-> "done", attempt |-> a + 1]

(***************************************************************************)
(* parse_markdown_file                                                     *)
(***************************************************************************)
\* tokens that stand for an absolute http(s) URL
UrlTokens == {"img1", "img2", "lit", "link", Placeholder}
IsUrl(t) == t \in UrlTokens

H2(label) == <<"#", "#", " ", label>>

\* title_match = re.search(r'^# (.+?)$', content, re.MULTILINE)
\* title = title_match.group(1) if title_match else "Untitled"
ExtractTitleNoDefault(s) ==
    LET ls == SplitLines(s)
        i  == MinOrZero({k \in 1..Len(ls) : StartsWith(ls[k], <<"#", " ">>) /\ Len(ls[k]) >= 3})
    IN  IF i = 0 THEN <<>> ELSE From(ls[i], 3)
ExtractTitle(s) ==
    LET ls == SplitLines(s)
        i  == MinOrZero({k \in 1..Len(ls) : StartsWith(ls[k], <<"#", " ">>) /\ Len(ls[k]) >= 3})
    IN  IF i = 0 THEN <<"Untitled">> ELSE From(ls[i], 3)

\* m = re.search(r'## <label>\n(.+?)$', content, re.MULTILINE)
\* value = m.group(1).strip() if m else ""
SectionLine(s, label) ==
    LET ls == SplitLines(s)
        i  == MinOrZero({k \in 1..(Len(ls) - 1) : EndsWith(ls[k], H2(label)) /\ ls[k + 1] # <<>>})
    IN  IF i = 0 THEN <<>> ELSE Strip(ls[i + 1])

ImageMarker == <<"*", "*", "Image:", "*", "*">>

\* image_match = re.search(r'^\*\*Image:\*\*\s*(.+?)$', content, re.MULTILINE)
\* article_image = image_match.group(1).strip()
\* (\s* runs over blanks and line breaks; the group is the rest of the line it stops on)
BoldImageField(s) ==
    LET ls   == SplitLines(s)
        i    == MinOrZero({k \in 1..Len(ls) : StartsWith(ls[k], ImageMarker)})
        rest == LStrip(From(JoinLines(SubSeq(ls, i, Len(ls))), Len(ImageMarker) + 1))
    IN  IF i = 0 THEN <<>> ELSE Strip(SplitLines(rest)[1])

\* '[' in article_image and '](http' in article_image
HasLinkSyntax(img) ==
    /\ Contains(img, <<"[">>)
    /\ \E q \in 1..Len(img) : OccursAt(img, <<"]", "(">>, q) /\ q + 2 <= Len(img) /\ IsUrl(img[q + 2])

\* url_match = re.search(r'\]\(([^)]+)\)', article_image): position of the match, 0 when none
ParenMatch(img) ==
    MinOrZero({q \in 1..Len(img) : OccursAt(img, <<"]", "(">>, q) /\ Find(img, <<")">>, q + 2) > q + 2})
ParenTarget(img) == Slice(img, ParenMatch(img) + 2, Find(img, <<")">>, ParenMatch(img) + 2) - 1)

\* url_match = re.search(r'(https?://[^\s\]]+)', article_image)
BareUrlStart(img) == MinOrZero({q \in 1..Len(img) : IsUrl(img[q])})
BareUrl(img) ==
    LET j     == BareUrlStart(img)
        stops == {q \in (j + 1)..Len(img) : IsSpace(img[q]) \/ img[q] = "]"}
    IN  Slice(img, j, IF stops = {} THEN Len(img) ELSE MinOrZero(stops) - 1)

\* the block `if article_image:` of markdown_to_ppt.py
NormalizeImage(img) ==
    LET a == IF HasLinkSyntax(img) /\ ParenMatch(img) # 0 THEN ParenTarget(img) ELSE img
    IN  IF img = <<>> THEN <<>>
        ELSE IF BareUrlStart(a) # 0 THEN BareUrl(a) ELSE a

\* the literal image: "## Article Image" section, in markdown_to_ppt.py with the
\* **Image:** field as second source and the URL extraction on top
LiteralImage(i, s) ==
    IF i = "pandoc" THEN SectionLine(s, "Article Image")
    ELSE NormalizeImage(IF SectionLine(s, "Article Image") # <<>>
                        THEN SectionLine(s, "Article Image")
                        ELSE BoldImageField(s))

\* if article_link: fetched_image = fetch_og_image_from_url(article_link)
ShouldFetchAlways(link) == TRUE
ShouldFetch(link) == link # <<>>

\* if fetched_image: article_image = fetched_image
ResolveImageDropLiteral(literal, fetched) == IF fetched # None THEN <<fetched>> ELSE <<>>
ResolveImageKeepLiteral(literal, fetched) ==
    IF literal # <<>> THEN literal ELSE IF fetched # None THEN <<fetched>> ELSE literal
ResolveImage(literal, fetched) == IF fetched # None THEN <<fetched>> ELSE literal

\* focal_section = re.search(r'## Article Content\n((?:.|\n)+?)(?:^###|\Z)', content, re.MULTILINE)
\* the lines of group(1); the group takes at least one character, so a heading
\* directly under "## Article Content" does not end it
FocalStart(s) ==
    LET ls == SplitLines(s)
    IN  MinOrZero({k \in 1..(Len(ls) - 1) :
                     /\ EndsWith(ls[k], H2("Article Content"))
                     /\ (k + 1 < Len(ls) \/ ls[k + 1] # <<>>)})
FocalBlock(s) ==
    LET ls == SplitLines(s)
        i  == FocalStart(s)
        j  == MinOrZero({k \in (i + 2)..Len(ls) : StartsWith(ls[k], <<"#", "#", "#">>)})
    IN  IF i = 0 THEN <<>> ELSE SubSeq(ls, i + 1, IF j = 0 THEN Len(ls) ELSE j - 1)

\* line.startswith('<bullet> '): the bullet character of markdown_to_ppt.py; in
\* markdown_to_pandoc.py the literal is the three characters of its mis-decoded bytes
BulletMarker(i) == IF i = "ppt" THEN <<"BULLET", " ">> ELSE <<"MOJ1", "MOJ2", "MOJ3", " ">>

\* the body of `for line in points_text.strip().split('\n')`: the points one line adds
ClassifyLineKeepMarker(i, raw) ==
    LET line == Strip(raw)
    IN  IF line = <<>> THEN <<>>
        ELSE IF StartsWith(line, BulletMarker(i)) \/ StartsWith(line, <<"-", " ">>)
             THEN <<line>>
        ELSE IF StartsWith(line, <<"*", "*">>) /\ Contains(From(line, 3), <<"*", "*">>) THEN <<line>>
        ELSE <<>>
ClassifyLine(i, raw) ==
    LET line == Strip(raw)
    IN  IF line = <<>> THEN <<>>
        ELSE IF StartsWith(line, BulletMarker(i)) \/ StartsWith(line, <<"-", " ">>)
             THEN <<Strip(From(line, 3))>>
        ELSE IF StartsWith(line, <<"*", "*">>) /\ Contains(From(line, 3), <<"*", "*">>) THEN <<line>>
        ELSE <<>>

RECURSIVE CollectPoints(_, _)
CollectPoints(i, ls) ==
    IF ls = <<>> THEN <<>> ELSE ClassifyLine(i, Head(ls)) \o CollectPoints(i, Tail(ls))

FocalPoints(i, s) == CollectPoints(i, FocalBlock(s))

ItalianHeader == <<"#", "#", "#", " ", "*", "*", "Speaker Notes (Italian)", "*", "*", ":">>
EnglishHeader == <<"#", "#", "#", " ", "*", "*", "Speaker Notes (English)", "*", "*", ":">>

\* content[start:end] with end = -1 replaced by len(content), as 1-based slice
NotesSlice(s, start, endpos) == Strip(Slice(s, start, IF endpos = 0 THEN Len(s) ELSE endpos - 1))

\* speaker notes of markdown_to_ppt.py: the two language tracks
SpeakerNotesPpt(s) ==
    LET italian_pos   == Find(s, ItalianHeader, 1)
        english_pos   == Find(s, EnglishHeader, 1)
        italian_start == italian_pos + Len(ItalianHeader)
        italian_end   == IF english_pos # 0 THEN english_pos ELSE Find(s, <<NL, "#", "#", " ">>, italian_start)
        italian_notes == IF italian_pos = 0 THEN <<>> ELSE NotesSlice(s, italian_start, italian_end)
        english_start == english_pos + Len(EnglishHeader)
        english_end   == Find(s, <<NL, "#", "#", " ">>, english_start)
        english_notes == IF english_pos = 0 THEN <<>> ELSE NotesSlice(s, english_start, english_end)
        part1 == IF italian_notes # <<>> THEN <<"**Italian Notes:**", NL>> \o italian_notes \o <<NL, NL>> ELSE <<>>
        part2 == IF english_notes # <<>> THEN <<"**English Notes:**", NL>> \o english_notes ELSE <<>>
    IN  Strip(part1 \o part2)

\* speaker_section = re.search(r'### Speaker Notes\n((?:.|\n)+?)(?:^##[^#]|^##$|\Z)', content, re.MULTILINE)
SpeakerNotesPandoc(s) ==
    LET ls == SplitLines(s)
        i  == MinOrZero({k \in 1..(Len(ls) - 1) :
                           /\ EndsWith(ls[k], <<"#", "#", "#", " ", "Speaker Notes">>)
                           /\ (k + 1 < Len(ls) \/ ls[k + 1] # <<>>)})
        j  == MinOrZero({k \in (i + 2)..Len(ls) :
                           /\ StartsWith(ls[k], <<"#", "#">>)
                           /\ (Len(ls[k]) = 2 \/ ls[k][3] # "#")})
    IN  IF i = 0 THEN <<>>
        ELSE Strip(JoinLines(SubSeq(ls, i + 1, IF j = 0 THEN Len(ls) ELSE j - 1)))

SpeakerNotes(i, s) == IF i = "ppt" THEN SpeakerNotesPpt(s) ELSE SpeakerNotesPandoc(s)

GetEvent(o) == [ev |-> "get", out |-> o, d |-> 0]
SleepEvent(n) == [ev |-> "sleep", out |-> [type |-> "none", body |-> <<>>], d |-> n]

\* One iteration of the loop body up to the sleep: the GET, the scan of the body,
\* and the except handler.
FetchAttempt ==
    /\ fpc = "try"
    /\ attempt < MaxRetries
    /\ \E o \in web :
        /\ log' = Append(log, GetEvent(o))
        /\ IF o.type = "resp"
           THEN IF OgImageSearch(o.body) # None
                THEN /\ fpc' = "done"
                     /\ fResult' = OgImageSearch(o.body)
                     /\ attempt' = attempt
                ELSE /\ fpc' = NoMatchNext(impl, attempt).fpc
                     /\ attempt' = NoMatchNext(impl, attempt).attempt
                     /\ fResult' = None
           ELSE IF ~Caught(o.type)
                THEN /\ fpc' = "raised"
                     /\ UNCHANGED <<attempt, fResult>>
                ELSE IF RetriesRemain(attempt)
                     THEN /\ fpc' = "sleep"
                          /\ UNCHANGED <<attempt, fResult>>
                     ELSE /\ fpc' = "done"
                          /\ fResult' = None
                          /\ attempt' = attempt
    /\ UNCHANGED <<impl, content, pc, rec, calls, web, cover>>
    /\ UNCHANGED fmtVars
    /\ UNCHANGED mainVars

\* time.sleep(wait_time); continue
FetchSleep ==
    /\ fpc = "sleep"
    /\ log' = Append(log, SleepEvent(WaitTime(impl, attempt)))
    /\ attempt' = attempt + 1
    /\ fpc' = "try"
    /\ UNCHANGED <<impl, content, pc, rec, calls, web, fResult, cover>>
    /\ UNCHANGED fmtVars
    /\ UNCHANGED mainVars

EmptyRec ==
    [title |-> <<>>, date |-> <<>>, link |-> <<>>, image |-> <<>>,
     focal_points |-> <<>>, speaker_notes |-> <<>>]

\* A direct call fetch_og_image_from_url(url) against a server that can do anything.
InitFetch ==
    /\ impl \in Impls
    /\ content = <<>>
    /\ pc = "idle"
    /\ rec = EmptyRec
    /\ calls = 1
    /\ web = Outcomes
    /\ fpc = "try"
    /\ attempt = 0
    /\ fResult = None
    /\ log = <<>>
    /\ cover = <<"unset">>
    /\ mdText = <<>>
    /\ frame = <<>>
    /\ frame2 = <<>>
    /\ tpc = "off"
    /\ files = <<>>
    /\ mi = 1
    /\ deck = <<>>
    /\ processed_count = 0
    /\ saved = "pending"
    /\ mpc = "off"

NextFetch == FetchAttempt \/ FetchSleep

SpecFetch == InitFetch /\ [][NextFetch]_vars

\* image_url and image_url != "https://github.blog/changelog/": the background
\* image of the cover slide, empty when the slide gets none
CoverImageUnfiltered(image_url) == image_url
CoverImage(image_url) ==
    IF image_url # <<>> /\ image_url # <<Placeholder>> THEN image_url ELSE <<>>

\* parse_markdown_file up to the call of the fetcher: title, date, link, literal image
ParseHead ==
    /\ pc = "start"
    /\ rec' = [title |-> ExtractTitle(content),
               date |-> SectionLine(content, "Article Date"),
               link |-> SectionLine(content, "Article Url"),
               image |-> LiteralImage(impl, content),
               focal_points |-> <<>>,
               speaker_notes |-> <<>>]
    /\ IF ShouldFetch(SectionLine(content, "Article Url"))
       THEN /\ pc' = "fetch"
            /\ fpc' = "try"
            /\ attempt' = 0
            /\ calls' = calls + 1
       ELSE /\ pc' = "rest"
            /\ UNCHANGED <<fpc, attempt, calls>>
    /\ UNCHANGED <<impl, content, web, fResult, log, cover>>
    /\ UNCHANGED fmtVars
    /\ UNCHANGED mainVars

\* parse_markdown_file from the return of the fetcher to its own return
ParseRest ==
    /\ pc = "rest" \/ (pc = "fetch" /\ fpc = "done")
    /\ rec' = [rec EXCEPT
                 !.image = IF pc = "fetch" THEN ResolveImage(rec.image, fResult) ELSE rec.image,
                 !.focal_points = FocalPoints(impl, content),
                 !.speaker_notes = SpeakerNotes(impl, content)]
    /\ pc' = "done"
    /\ UNCHANGED <<impl, content, calls, web, fpc, attempt, fResult, log, cover>>
    /\ UNCHANGED fmtVars
    /\ UNCHANGED mainVars

\* create_cover_slide(data['title'], data['image'], ...) /
\* create_cover_slide_markdown(data['title'], data['image'], data['date'])
CreateCoverSlide ==
    /\ pc = "done"
    /\ cover' = CoverImage(rec.image)
    /\ pc' = "rendered"
    /\ UNCHANGED <<impl, content, rec, calls, web, fpc, attempt, fResult, log>>
    /\ UNCHANGED fmtVars
    /\ UNCHANGED mainVars

(***************************************************************************)
(* Documents and servers the extraction is run on                          *)
(***************************************************************************)
\* chunks of the documents that exercise title, date, link, image and the fetch
ChunkPool ==
    { <<"#", " ", "a">>,
      <<"#", " ", "b", " ">>,
      <<>>,
      H2("Article Date") \o <<NL, " ", "d">>,
      H2("Article Url") \o <<NL, "link">>,
      H2("Article Image") \o <<NL, "lit">>,
      H2("Article Image") \o <<NL, Placeholder>>,
      H2("Article Content"),
      <<"-", " ", "a">>,
      <<"#">> \o H2("Article Date") \o <<NL, " ", "d">> }

Docs == {JoinLines(cs) : cs \in SeqsUpTo(ChunkPool, MaxChunks)}

\* chunks of the documents that exercise the focal points and the speaker notes
BodyPool ==
    { <<"#", " ", "a">>,
      <<>>,
      <<"a">>,
      H2("Article Content"),
      <<"-", " ", "a">>,
      <<"BULLET", " ", "b">>,
      <<"*", "*", "a", "*", "*">>,
      <<"#", "#", "#", " ", "Speaker Notes">>,
      EnglishHeader \o <<NL, "a">>,
      ItalianHeader \o <<NL, "b">> }

\* "# Hello\n## Article Date\n2025-01-01\n## Article Content\n- point one\n- point two\n
\*  ### Speaker Notes\nNote body", words as tokens
ScenarioDoc ==
    JoinLines(<< <<"#", " ", "Hello">>,
                 H2("Article Date"),
                 <<"2025-01-01">>,
                 H2("Article Content"),
                 <<"-", " ", "point one">>,
                 <<"-", " ", "point two">>,
                 <<"#", "#", "#", " ", "Speaker Notes">>,
                 <<"Note body">> >>)

BodyDocs == {JoinLines(cs) : cs \in SeqsUpTo(BodyPool, MaxBodyChunks)} \cup {ScenarioDoc}

\* the server of the linked article: fails, or serves a page with an og:image tag,
\* or with the changelog index as og:image
ArticleServer ==
    { [type |-> "URLError", body |-> <<>>],
      [type |-> "resp", body |-> <<[form |-> "prop_content", url |-> "img1"]>>],
      [type |-> "resp", body |-> <<[form |-> "upper", url |-> Placeholder]>>] }

Init ==
    /\ impl \in Impls
    /\ content \in Docs
    /\ pc = "start"
    /\ rec = EmptyRec
    /\ calls = 0
    /\ web = ArticleServer
    /\ fpc = "idle"
    /\ attempt = 0
    /\ fResult = None
    /\ log = <<>>
    /\ cover = <<"unset">>
    /\ mdText = <<>>
    /\ frame = <<>>
    /\ frame2 = <<>>
    /\ tpc = "off"
    /\ files = <<>>
    /\ mi = 1
    /\ deck = <<>>
    /\ processed_count = 0
    /\ saved = "pending"
    /\ mpc = "off"

Next == ParseHead \/ FetchAttempt \/ FetchSleep \/ ParseRest \/ CreateCoverSlide

Spec == Init /\ [][Next]_vars

\* Extraction of the documents without link: the fetcher is never entered.
InitBody ==
    /\ impl \in Impls
    /\ content \in BodyDocs
    /\ pc = "start"
    /\ rec = EmptyRec
    /\ calls = 0
    /\ web = {}
    /\ fpc = "idle"
    /\ attempt = 0
    /\ fResult = None
    /\ log = <<>>
    /\ cover = <<"unset">>
    /\ mdText = <<>>
    /\ frame = <<>>
    /\ frame2 = <<>>
    /\ tpc = "off"
    /\ files = <<>>
    /\ mi = 1
    /\ deck = <<>>
    /\ processed_count = 0
    /\ saved = "pending"
    /\ mpc = "off"

NextBody == ParseHead \/ ParseRest \/ CreateCoverSlide

SpecBody == InitBody /\ [][NextBody]_vars

(***************************************************************************)
(* parse_markdown_formatting (markdown_to_ppt.py): the inline formatter    *)
(***************************************************************************)
\* the delimiter characters, which the plain alternative of the pattern excludes
\* ("BACKTICK" stands for the grave accent)
Delims == {"*", "_", "BACKTICK", "~", "["}

\* a greedy negated class: the index of the last element of the longest run from p on
\* that holds no element of stop (p - 1 when the run is empty)
RECURSIVE RunEnd(_, _, _)
RunEnd(line, p, stop) ==
    IF p > Len(line) \/ line[p] \in stop THEN p - 1 ELSE RunEnd(line, p + 1, stop)

\* the alternatives for bold, italic, code and strikethrough (a marker, one or
\* more characters other than the marker's, the marker):
\* the index of the last element of the match starting at p, 0 for no match
Paired(line, p, mark) ==
    LET n == Len(mark)
        e == RunEnd(line, p + n, {mark[1]})
    IN  IF OccursAt(line, mark, p) /\ e >= p + n /\ OccursAt(line, mark, e + 1)
        THEN e + n ELSE 0

\* the alternative for a link: bracket text, then the target in parentheses
LinkEnd(line, p) ==
    LET e1 == RunEnd(line, p + 1, {"]"})
        e2 == RunEnd(line, e1 + 3, {")"})
    IN  IF /\ OccursAt(line, <<"[">>, p)
           /\ e1 >= p + 1
           /\ OccursAt(line, <<"]", "(">>, e1 + 1)
           /\ e2 >= e1 + 3
           /\ OccursAt(line, <<")">>, e2 + 1)
        THEN e2 + 1 ELSE 0

\* the plain alternative: one non-delimiter, then optionally the longest run of
\* non-delimiters that ends with a non-blank one
PlainRunGreedy(line, p) ==
    IF p > Len(line) \/ line[p] \in Delims THEN 0
    ELSE RunEnd(line, p + 1, Delims)
PlainRun(line, p) ==
    IF p > Len(line) \/ line[p] \in Delims THEN 0
    ELSE LET e == RunEnd(line, p + 1, Delims)
             ends == {q \in (p + 1)..e : ~IsSpace(line[q])}
         IN  IF ends = {} THEN p ELSE CHOOSE q \in ends : \A r \in ends : r <= q

\* the whole pattern at position p: the first alternative that matches
MatchEnd(line, p) ==
    IF Paired(line, p, <<"*", "*">>) # 0 THEN Paired(line, p, <<"*", "*">>)
    ELSE IF Paired(line, p, <<"_">>) # 0 THEN Paired(line, p, <<"_">>)
    ELSE IF Paired(line, p, <<"*">>) # 0 THEN Paired(line, p, <<"*">>)
    ELSE IF Paired(line, p, <<"BACKTICK">>) # 0 THEN Paired(line, p, <<"BACKTICK">>)
    ELSE IF Paired(line, p, <<"~", "~">>) # 0 THEN Paired(line, p, <<"~", "~">>)
    ELSE IF LinkEnd(line, p) # 0 THEN LinkEnd(line, p)
    ELSE PlainRun(line, p)

\* the loop over re.finditer: matches are markdown tokens, the text between
\* two matches and after the last one is a plain token
RECURSIVE TokenizeDropGaps(_, _, _)
TokenizeDropGaps(line, p, last) ==
    IF p > Len(line) THEN <<>>
    ELSE LET q == MatchEnd(line, p)
         IN  IF q = 0 THEN TokenizeDropGaps(line, p + 1, last)
             ELSE <<[type |-> "markdown", tok |-> Slice(line, p, q)]>>
                  \o TokenizeDropGaps(line, q + 1, q)
RECURSIVE Tokenize(_, _, _)
Tokenize(line, p, last) ==
    IF p > Len(line)
    THEN IF last < Len(line)
         THEN <<[type |-> "plain", tok |-> Slice(line, last + 1, Len(line))]>>
         ELSE <<>>
    ELSE LET q == MatchEnd(line, p)
         IN  IF q = 0 THEN Tokenize(line, p + 1, last)
             ELSE (IF p - 1 > last
                   THEN <<[type |-> "plain", tok |-> Slice(line, last + 1, p - 1)]>>
                   ELSE <<>>)
                  \o <<[type |-> "markdown", tok |-> Slice(line, p, q)]>>
                  \o Tokenize(line, q + 1, q)

\* the fallback when no token was found: the whole line as one plain token
Tokens(line) ==
    LET ts == Tokenize(line, 1, 0)
    IN  IF ts = <<>> THEN <<[type |-> "plain", tok |-> line]>> ELSE ts

\* the five tests on a markdown token
IsBold(tok) == StartsWith(tok, <<"*", "*">>) /\ EndsWith(tok, <<"*", "*">>)
IsItalic(tok) ==
    \/ StartsWith(tok, <<"_">>) /\ EndsWith(tok, <<"_">>)
    \/ StartsWith(tok, <<"*">>) /\ EndsWith(tok, <<"*">>) /\ ~StartsWith(tok, <<"*", "*">>)
IsCode(tok) == StartsWith(tok, <<"BACKTICK">>) /\ EndsWith(tok, <<"BACKTICK">>)
IsStrikethrough(tok) == StartsWith(tok, <<"~", "~">>) /\ EndsWith(tok, <<"~", "~">>)
IsLink(tok) == StartsWith(tok, <<"[">>) /\ Contains(tok, <<"]", "(">>)

\* re.match of the link pattern on the token: <<group 1, group 2>>, <<>> for no match
LinkMatch(tok) ==
    LET e1 == RunEnd(tok, 2, {"]"})
        e2 == RunEnd(tok, e1 + 3, {")"})
    IN  IF LinkEnd(tok, 1) # 0 THEN <<Slice(tok, 2, e1), Slice(tok, e1 + 3, e2)>> ELSE <<>>

\* clean_text: the token without its markers
CleanTextNarrow(tok) ==
    IF IsBold(tok) THEN Slice(tok, 2, Len(tok) - 1)
    ELSE IF IsItalic(tok) THEN Slice(tok, 2, Len(tok) - 1)
    ELSE IF IsCode(tok) THEN Slice(tok, 2, Len(tok) - 1)
    ELSE IF IsStrikethrough(tok) THEN Slice(tok, 3, Len(tok) - 2)
    ELSE IF IsLink(tok) THEN (IF LinkMatch(tok) # <<>> THEN LinkMatch(tok)[1] ELSE tok)
    ELSE tok
CleanText(tok) ==
    IF IsBold(tok) THEN Slice(tok, 3, Len(tok) - 2)
    ELSE IF IsItalic(tok) THEN Slice(tok, 2, Len(tok) - 1)
    ELSE IF IsCode(tok) THEN Slice(tok, 2, Len(tok) - 1)
    ELSE IF IsStrikethrough(tok) THEN Slice(tok, 3, Len(tok) - 2)
    ELSE IF IsLink(tok) THEN (IF LinkMatch(tok) # <<>> THEN LinkMatch(tok)[1] ELSE tok)
    ELSE tok

\* the formatting applied to the run of a markdown token
StyleFlagsItalicInBold(tok) ==
    (IF IsBold(tok) THEN {"bold"} ELSE {})
    \cup (IF IsItalic(tok) \/ (StartsWith(tok, <<"*">>) /\ EndsWith(tok, <<"*">>)) THEN {"italic"} ELSE {})
    \cup (IF IsCode(tok) THEN {"code"} ELSE {})
    \cup (IF IsStrikethrough(tok) THEN {"strikethrough"} ELSE {})
    \cup (IF IsLink(tok) THEN {"link"} ELSE {})
StyleFlags(tok) ==
    (IF IsBold(tok) THEN {"bold"} ELSE {})
    \cup (IF IsItalic(tok) THEN {"italic"} ELSE {})
    \cup (IF IsCode(tok) THEN {"code"} ELSE {})
    \cup (IF IsStrikethrough(tok) THEN {"strikethrough"} ELSE {})
    \cup (IF IsLink(tok) THEN {"link"} ELSE {})

\* run.hyperlink.address of a link token
LinkUrl(tok) == IF IsLink(tok) /\ LinkMatch(tok) # <<>> THEN LinkMatch(tok)[2] ELSE <<>>

\* the test that skips a blank plain token
SkippedAnyBlank(t) == Strip(t.tok) = <<>>
Skipped(t) == Strip(t.tok) = <<>> /\ t.type = "plain"

\* the run added for one token; `token` records the source text of the run
MakeRun(t) ==
    IF t.type = "markdown"
    THEN [text |-> CleanText(t.tok), style |-> StyleFlags(t.tok),
          link |-> LinkUrl(t.tok), token |-> t.tok]
    ELSE [text |-> t.tok, style |-> {}, link |-> <<>>, token |-> t.tok]

RECURSIVE MakeRuns(_)
MakeRuns(ts) ==
    IF ts = <<>> THEN <<>>
    ELSE (IF Skipped(Head(ts)) THEN <<>> ELSE <<MakeRun(Head(ts))>>) \o MakeRuns(Tail(ts))

\* the paragraphs added by the loop over the lines; `first` is first_paragraph
RECURSIVE RenderLinesDropBlank(_, _, _)
RenderLinesDropBlank(ls, k, first) ==
    IF k > Len(ls) THEN <<>>
    ELSE IF Strip(ls[k]) = <<>>
         THEN RenderLinesDropBlank(ls, k + 1, first)
         ELSE <<MakeRuns(Tokens(ls[k]))>> \o RenderLinesDropBlank(ls, k + 1, FALSE)
RECURSIVE RenderLines(_, _, _)
RenderLines(ls, k, first) ==
    IF k > Len(ls) THEN <<>>
    ELSE IF Strip(ls[k]) = <<>>
         THEN (IF first THEN <<>> ELSE << <<>> >>) \o RenderLines(ls, k + 1, first)
         ELSE <<MakeRuns(Tokens(ls[k]))>> \o RenderLines(ls, k + 1, FALSE)

\* text_frame.clear() leaves one empty paragraph, which the first non-blank line fills
ParseMarkdownFormatting(text) ==
    LET ps == RenderLines(SplitLines(text), 1, TRUE)
    IN  IF ps = <<>> THEN << <<>> >> ELSE ps

\* the text of a paragraph and of a frame: the run.text in order, paragraphs
\* separated by a line break
RECURSIVE ParaTokens(_)
ParaTokens(runs) == IF runs = <<>> THEN <<>> ELSE Head(runs).token \o ParaTokens(Tail(runs))
RECURSIVE ParaText(_)
ParaText(runs) == IF runs = <<>> THEN <<>> ELSE Head(runs).text \o ParaText(Tail(runs))
PlainTextOfTokens(fr) == JoinLines([k \in 1..Len(fr) |-> ParaTokens(fr[k])])
PlainText(fr) == JoinLines([k \in 1..Len(fr) |-> ParaText(fr[k])])

Render ==
    /\ tpc = "input"
    /\ frame' = ParseMarkdownFormatting(mdText)
    /\ tpc' = "rendered"
    /\ UNCHANGED <<mdText, frame2>>
    /\ UNCHANGED <<impl, content, pc, rec, calls, web, fpc, attempt, fResult, log, cover>>
    /\ UNCHANGED mainVars

RenderAgain ==
    /\ tpc = "rendered"
    /\ frame2' = ParseMarkdownFormatting(PlainText(frame))
    /\ tpc' = "again"
    /\ UNCHANGED <<mdText, frame>>
    /\ UNCHANGED <<impl, content, pc, rec, calls, web, fpc, attempt, fResult, log, cover>>
    /\ UNCHANGED mainVars

\* the pieces the formatted texts are made of
PiecePool ==
    { <<"a">>, <<" ">>, <<NL>>,
      <<"*">>, <<"*", "*">>, <<"_">>, <<"BACKTICK">>, <<"~", "~">>,
      <<"[", "a", "]">>, <<"(", "u", ")">> }

RECURSIVE Flatten(_)
Flatten(ps) == IF ps = <<>> THEN <<>> ELSE Head(ps) \o Flatten(Tail(ps))

\* "Use **bold** and _italic_ and plain", words as tokens
ScenarioText ==
    <<"Use", " ", "*", "*", "bold", "*", "*", " ", "and", " ",
      "_", "italic", "_", " ", "and", " ", "plain">>

Texts == {Flatten(ps) : ps \in SeqsUpTo(PiecePool, MaxPieces)} \cup {ScenarioText}

InitInline ==
    /\ impl = "ppt"
    /\ content = <<>>
    /\ pc = "idle"
    /\ rec = EmptyRec
    /\ calls = 0
    /\ web = {}
    /\ fpc = "idle"
    /\ attempt = 0
    /\ fResult = None
    /\ log = <<>>
    /\ cover = <<"unset">>
    /\ mdText \in Texts
    /\ frame = <<>>
    /\ frame2 = <<>>
    /\ tpc = "input"
    /\ files = <<>>
    /\ mi = 1
    /\ deck = <<>>
    /\ processed_count = 0
    /\ saved = "pending"
    /\ mpc = "off"

NextInline == Render \/ RenderAgain

SpecInline == InitInline /\ [][NextInline]_vars

(***************************************************************************)
(* main: the loop over the sorted markdown files                           *)
(***************************************************************************)
\* What the body of the try block does for one file.  parse_markdown_file can
\* raise before anything is added.  create_single_slide of markdown_to_ppt.py
\* adds its slides to the shared presentation object in place, so a raise can
\* follow the cover slide (add_slide in create_cover_slide) or the content slide
\* (add_slide in create_single_slide).  The slide builders of
\* markdown_to_pandoc.py are total string functions and their result is appended
\* only after they return.
DocOutcomes(i) ==
    IF i = "ppt" THEN {"ok", "raise_parse", "raise_cover", "raise_content"}
    ELSE {"ok", "raise_parse"}

Slide(k, kind) == [doc |-> k, kind |-> kind]

\* the slides file k has put in the output when its iteration ends
SlidesAdded(k, o) ==
    IF o = "raise_parse" THEN <<>>
    ELSE IF o = "raise_cover" THEN <<Slide(k, "cover")>>
    ELSE <<Slide(k, "cover"), Slide(k, "content")>>

\* one iteration: the try block, processed_count += 1 on success, the except handler
ProcessFile ==
    /\ mpc = "loop"
    /\ mi <= Len(files)
    /\ deck' = deck \o SlidesAdded(mi, files[mi])
    /\ processed_count' = (IF files[mi] = "ok" THEN processed_count + 1 ELSE processed_count)
    /\ mi' = mi + 1
    /\ UNCHANGED <<files, saved, mpc>>
    /\ UNCHANGED <<impl, content, pc, rec, calls, web, fpc, attempt, fResult, log, cover>>
    /\ UNCHANGED fmtVars

\* if processed_count > 0: save the output
SaveOutput ==
    /\ mpc = "loop"
    /\ mi > Len(files)
    /\ saved' = (IF processed_count > 0 THEN "saved" ELSE "none")
    /\ mpc' = "done"
    /\ UNCHANGED <<files, mi, deck, processed_count>>
    /\ UNCHANGED <<impl, content, pc, rec, calls, web, fpc, attempt, fResult, log, cover>>
    /\ UNCHANGED fmtVars

\* main returns before the loop when markdown_files is empty
FileLists(i) == SeqsUpTo(DocOutcomes(i), MaxFiles) \ {<<>>}

InitMain ==
    /\ impl \in Impls
    /\ content = <<>>
    /\ pc = "idle"
    /\ rec = EmptyRec
    /\ calls = 0
    /\ web = {}
    /\ fpc = "idle"
    /\ attempt = 0
    /\ fResult = None
    /\ log = <<>>
    /\ cover = <<"unset">>
    /\ mdText = <<>>
    /\ frame = <<>>
    /\ frame2 = <<>>
    /\ tpc = "off"
    /\ files \in FileLists(impl)
    /\ mi = 1
    /\ deck = <<>>
    /\ processed_count = 0
    /\ saved = "pending"
    /\ mpc = "loop"

NextMain == ProcessFile \/ SaveOutput

SpecMain == InitMain /\ [][NextMain]_vars

(***************************************************************************)
(* Vocabulary of the fetcher properties, read off the history `log`        *)
(***************************************************************************)
GetIdx == {i \in 1..Len(log) : log[i].ev = "get"}
SleepIdx == {i \in 1..Len(log) : log[i].ev = "sleep"}

\* the number (1, 2, 3) of the attempt recorded at position i of the history
GetNo(i) == Cardinality({j \in GetIdx : j <= i})

RECURSIVE SumWaitsUpTo(_)
SumWaitsUpTo(n) == IF n = 0 THEN 0 ELSE log[n].d + SumWaitsUpTo(n - 1)
SumWaits == SumWaitsUpTo(Len(log))

\* a meta-image declaration in one of the two attribute orderings, any letter case
IsDeclaration(tag) == tag.form \in {"prop_content", "content_prop", "upper"} /\ tag.url # ""
DeclIdx(body) == {k \in 1..Len(body) : IsDeclaration(body[k])}
HasDeclaration(body) == DeclIdx(body) # {}
FirstDeclUrl(body) == body[CHOOSE k \in DeclIdx(body) : \A m \in DeclIdx(body) : k <= m].url

Raised(o) == o.type # "resp"
TagLess(o) == o.type = "resp" /\ ~HasDeclaration(o.body)
FailedOutcome(o) == Raised(o) \/ TagLess(o)

IsSleepOf(i, n) == i <= Len(log) /\ log[i].ev = "sleep" /\ log[i].d = n
IsGet(i) == i <= Len(log) /\ log[i].ev = "get"

\* the wait sequence 1, 2 that separates three raising attempts
WaitsBetweenRaises ==
    LET RECURSIVE Tot(_)
        Tot(n) == IF n = 0 THEN 0
                  ELSE (IF n \in GetIdx /\ Raised(log[n].out) /\ GetNo(n) < 3
                        THEN Pow2(GetNo(n) - 1) ELSE 0) + Tot(n - 1)
    IN  Tot(Len(log))

\* C1: whatever the server does, the fetcher issues at most 3 GETs, never lets an
\* exception escape to its caller, can always take its next step until it has
\* returned, returns a URL or None, and returns None when its last attempt failed.
C1_BoundedNeverRaises ==
    /\ Cardinality(GetIdx) <= 3
    /\ fpc # "raised"
    /\ fpc \in {"try", "sleep"} => ENABLED NextFetch
    /\ fpc = "done" =>
          /\ fResult \in ImageUrls \cup {None}
          /\ log # <<>> /\ IsGet(Len(log))
          /\ FailedOutcome(log[Len(log)].out) => fResult = None

\* C1 witness: three attempts were made, the third raised, None was returned
C1_Witness ==
    /\ fpc = "done"
    /\ Cardinality(GetIdx) = 3
    /\ Raised(log[Len(log)].out)
    /\ fResult = None

C3_AsStated ==
    \A i \in GetIdx :
        (FailedOutcome(log[i].out) /\ GetNo(i) < 3) =>
            /\ (i < Len(log) \/ fpc = "done") => IsSleepOf(i + 1, Pow2(GetNo(i) - 1))
            /\ (i + 1 < Len(log) \/ fpc = "done") => IsGet(i + 2)

\* C3 amended: every attempt among the first two that fails by raising is
\* followed by a wait of 2^(attempt number - 1) and then by another attempt; a
\* response without a meta-image tag is never followed by a wait: markdown_to_ppt
\* returns None at once, markdown_to_pandoc goes straight to the next attempt.
C3_BackoffAfterRaiseOnly ==
    /\ \A i \in GetIdx :
        (Raised(log[i].out) /\ GetNo(i) < 3) =>
            /\ (i < Len(log) \/ fpc = "done") => IsSleepOf(i + 1, Pow2(GetNo(i) - 1))
            /\ (i + 1 < Len(log) \/ fpc = "done") => IsGet(i + 2)
    /\ \A i \in GetIdx :
        TagLess(log[i].out) =>
            /\ i < Len(log) => IsGet(i + 1)
            /\ impl = "ppt" => (i = Len(log) /\ fpc = "done" /\ fResult = None)
            /\ (impl = "pandoc" /\ i = Len(log)) => fpc = (IF GetNo(i) < 3 THEN "try" ELSE "done")
    /\ \A i \in SleepIdx : i > 1 /\ IsGet(i - 1) /\ Raised(log[i - 1].out)

\* C3 witness: a raising attempt was followed by its wait and a new attempt, and a
\* tag-less response was followed directly by a new attempt
C3_Witness ==
    /\ fpc = "done"
    /\ \E i \in GetIdx : Raised(log[i].out) /\ IsSleepOf(i + 1, 1) /\ IsGet(i + 2)
    /\ \E j \in GetIdx : TagLess(log[j].out) /\ IsGet(j + 1)

\* C4: an attempt whose response carries a meta-image declaration (either
\* attribute ordering) ends the call: it is the last event of the history and the
\* value returned is the URL of the first declaration of that body.
C4_FirstDeclarationReturned ==
    \A i \in GetIdx :
        (log[i].out.type = "resp" /\ HasDeclaration(log[i].out.body)) =>
            /\ i = Len(log)
            /\ fpc = "done"
            /\ fResult = FirstDeclUrl(log[i].out.body)

\* C4 witness: after a failed attempt, a body with two declarations of different
\* URLs, the first one in content-then-property order, gave the first URL
C4_Witness ==
    /\ fpc = "done"
    /\ Cardinality(GetIdx) >= 2
    /\ LET b == log[Len(log)].out.body
       IN  /\ Len(b) = 2
           /\ b[1].form = "content_prop"
           /\ b[2].form = "prop_content"
           /\ fResult = b[1].url
           /\ fResult # b[2].url

(***************************************************************************)
(* Vocabulary of the extractor properties                                  *)
(***************************************************************************)
Returned == pc \in {"done", "rendered"}
DocLines == SplitLines(content)
DocTokens == {content[k] : k \in 1..Len(content)}

\* the level-1 heading lines: "# " followed by text
H1Lines ==
    LET ls == DocLines
    IN  {k \in 1..Len(ls) : StartsWith(ls[k], <<"#", " ">>) /\ Len(ls[k]) > 2}
FirstH1Text == From(DocLines[MinOrZero(H1Lines)], 3)
NoSurroundingSpace(t) == t # <<>> /\ ~IsSpace(t[1]) /\ ~IsSpace(t[Len(t)])

\* every line that mentions the label is the last line or has a blank line under it
AbsentOrMalformed(label) ==
    LET ls == DocLines
    IN  \A k \in 1..Len(ls) :
            (\E j \in 1..Len(ls[k]) : ls[k][j] = label) => (k = Len(ls) \/ Strip(ls[k + 1]) = <<>>)
OnlyOnLastLine(label) ==
    LET ls == DocLines
    IN  \A k \in 1..(Len(ls) - 1) : \A j \in 1..Len(ls[k]) : ls[k][j] # label

\* C5 as stated: with a level-1 heading in the document, the title is the text of
\* the first one, verbatim, and has no surrounding whitespace.
C5_AsStated ==
    (Returned /\ H1Lines # {}) => (rec.title = FirstH1Text /\ NoSurroundingSpace(rec.title))

\* C6: the extraction of any text never fails and never stalls in the fetcher (a
\* step of the fetcher is possible until it has returned), and a section that is
\* missing or malformed leaves its default: "Untitled", empty date / link / image,
\* no focal points, empty speaker notes.
C6_DefaultsNeverFail ==
    /\ fpc # "raised"
    /\ pc = "fetch" => (fpc \in {"try", "sleep", "done"} /\ (fpc = "try" => attempt < MaxRetries))
    /\ Returned =>
        /\ H1Lines = {} => rec.title = <<"Untitled">>
        /\ AbsentOrMalformed("Article Date") => rec.date = <<>>
        /\ AbsentOrMalformed("Article Url") => (rec.link = <<>> /\ calls = 0)
        /\ (AbsentOrMalformed("Article Image") /\ "Image:" \notin DocTokens /\ fResult = None)
              => rec.image = <<>>
        /\ OnlyOnLastLine("Article Content") => rec.focal_points = <<>>
        /\ (OnlyOnLastLine("Speaker Notes") /\ "Speaker Notes (Italian)" \notin DocTokens
              /\ "Speaker Notes (English)" \notin DocTokens) => rec.speaker_notes = <<>>

\* C6 witness: a document without title, date, link, image and notes whose
\* "## Article Content" heading has nothing under it came back with all defaults
C6_Witness ==
    /\ pc = "done"
    /\ H1Lines = {}
    /\ Len(DocLines) >= 2
    /\ DocLines[Len(DocLines)] = H2("Article Content")
    /\ rec = [title |-> <<"Untitled">>, date |-> <<>>, link |-> <<>>, image |-> <<>>,
              focal_points |-> <<>>, speaker_notes |-> <<>>]

\* the bullet lines of a block as the documents write them: bullet character or
\* hyphen, then a space
IsBulletLine(raw) ==
    StartsWith(Strip(raw), <<"BULLET", " ">>) \/ StartsWith(Strip(raw), <<"-", " ">>)
RECURSIVE BulletTexts(_)
BulletTexts(ls) ==
    IF ls = <<>> THEN <<>>
    ELSE (IF IsBulletLine(Head(ls)) THEN <<Strip(From(Strip(Head(ls)), 3))>> ELSE <<>>)
         \o BulletTexts(Tail(ls))
OnlyBulletLines(ls) == \A k \in 1..Len(ls) : Strip(ls[k]) = <<>> \/ IsBulletLine(ls[k])

\* C7 as stated, for the blocks made of bullet lines only: a focal-point block
\* with N bullet lines gives N focal points, the bullet texts in source order.
C7_AsStated ==
    (Returned /\ FocalStart(content) # 0 /\ OnlyBulletLines(FocalBlock(content)))
        => rec.focal_points = BulletTexts(FocalBlock(content))

\* C8: when the document has a literal image and a link, and the fetch on the
\* link returned a value, the returned image is the fetched value.
C8_FetchedReplacesLiteral ==
    (Returned /\ LiteralImage(impl, content) # <<>> /\ calls = 1 /\ fResult # None)
        => rec.image = <<fResult>>

\* C8 witness: literal image "lit", fetched "img1", returned image "img1"
C8_Witness ==
    /\ pc = "done"
    /\ LiteralImage(impl, content) = <<"lit">>
    /\ fResult = "img1"
    /\ rec.image = <<"img1">>

\* C9: one extraction calls the fetcher at most once; the call is made after the
\* literal date / link / image are set, exactly when the link is non-empty, and
\* a document without link never reaches the fetcher.
C9_FetcherCalledAtMostOnce ==
    /\ calls <= 1
    /\ pc = "start" => (calls = 0 /\ fpc = "idle")
    /\ pc # "start" => calls = (IF rec.link # <<>> THEN 1 ELSE 0)
    /\ calls = 0 => (fpc = "idle" /\ log = <<>>)
    /\ calls = 1 =>
         /\ rec.date = SectionLine(content, "Article Date")
         /\ rec.link = SectionLine(content, "Article Url")
         /\ pc = "fetch" => rec.image = LiteralImage(impl, content)
    /\ "Article Url" \notin DocTokens => calls = 0
    /\ Cardinality(GetIdx) <= MaxRetries

\* C9 witness: a document with a link was extracted with exactly one call, and the
\* call made three GETs
C9_Witness ==
    /\ pc = "done"
    /\ rec.link = <<"link">>
    /\ calls = 1
    /\ Cardinality(GetIdx) = 3

PlaceholderImage == <<Placeholder>>

\* C10 as stated: the image of a returned record is never the changelog-index URL.
C10_AsStated == Returned => rec.image # PlaceholderImage

\* C10 amended: the record can carry the changelog-index URL as image (literal or
\* fetched); the cover-slide builders treat it as no image: the cover never gets
\* it as background, and any other image is used as it is.
C10_CoverFiltersPlaceholder ==
    pc = "rendered" =>
        /\ cover # PlaceholderImage
        /\ rec.image = PlaceholderImage => cover = <<>>
        /\ rec.image # PlaceholderImage => cover = rec.image

\* C10 witness: a record whose image is the changelog-index URL got a cover
\* without image
C10_Witness ==
    /\ pc = "rendered"
    /\ rec.image = PlaceholderImage
    /\ cover = <<>>

\* C11 as stated: both scripts extract the scenario document to title "Hello",
\* date "2025-01-01", focal points "point one", "point two" and speaker notes
\* "Note body".
C11_AsStated ==
    (Returned /\ content = ScenarioDoc) =>
        /\ rec.title = <<"Hello">>
        /\ rec.date = <<"2025-01-01">>
        /\ rec.focal_points = << <<"point one">>, <<"point two">> >>
        /\ rec.speaker_notes = <<"Note body">>

\* C11 amended: both scripts return that title, date and focal points; the
\* speaker notes are "Note body" in markdown_to_pandoc.py and empty in
\* markdown_to_ppt.py, which reads notes only under the two language-track headings.
C11_ScenarioPerScript ==
    (Returned /\ content = ScenarioDoc) =>
        /\ rec.title = <<"Hello">>
        /\ rec.date = <<"2025-01-01">>
        /\ rec.link = <<>>
        /\ rec.image = <<>>
        /\ rec.focal_points = << <<"point one">>, <<"point two">> >>
        /\ rec.speaker_notes = (IF impl = "pandoc" THEN <<"Note body">> ELSE <<>>)

\* C11 witness: markdown_to_pandoc.py returned the scenario document with its notes
C11_Witness ==
    /\ pc = "done"
    /\ content = ScenarioDoc
    /\ impl = "pandoc"
    /\ Len(rec.focal_points) = 2
    /\ rec.speaker_notes = <<"Note body">>

(***************************************************************************)
(* Vocabulary of the formatter properties                                  *)
(***************************************************************************)
Rendered == tpc \in {"rendered", "again"}
RunsOf(fr) == Flatten(fr)
Unstyled(fr) == \A k \in 1..Len(fr) : \A j \in 1..Len(fr[k]) : fr[k][j].style = {}
HasDelim(t) == \E k \in 1..Len(t) : t[k] \in Delims
NonBlankLines(t) == SelectSeq(SplitLines(t), LAMBDA l : Strip(l) # <<>>)
NonEmptyParas(fr) == SelectSeq(fr, LAMBDA para : para # <<>>)
SourceText(fr) == JoinLines([k \in 1..Len(fr) |-> ParaTokens(fr[k])])
SpanView(runs) == [j \in 1..Len(runs) |-> <<runs[j].text, runs[j].style>>]

\* the text of the run is its source text less the markers of its style
OnlyMarkersRemoved(r) ==
    \/ r.style = {} /\ r.token = r.text
    \/ r.style = {"bold"} /\ r.token = <<"*", "*">> \o r.text \o <<"*", "*">>
    \/ r.style = {"italic"} /\ \E m \in {"_", "*"} : r.token = <<m>> \o r.text \o <<m>>
    \/ r.style = {"code"} /\ r.token = <<"BACKTICK">> \o r.text \o <<"BACKTICK">>
    \/ r.style = {"strikethrough"} /\ r.token = <<"~", "~">> \o r.text \o <<"~", "~">>
    \/ r.style = {"link"} /\ r.token = <<"[">> \o r.text \o <<"]", "(">> \o r.link \o <<")">>

\* C12 as stated: for every input text the spans, in order, are the text with
\* nothing but the markers of the recognized tokens removed, all whitespace kept.
C12_AsStated ==
    Rendered =>
        /\ SourceText(frame) = mdText
        /\ \A k \in 1..Len(RunsOf(frame)) : OnlyMarkersRemoved(RunsOf(frame)[k])

\* C12 amended: every line that holds a non-blank character is reproduced by the
\* spans of its paragraph with nothing but the markers (and the link target) of
\* the recognized tokens removed; a whitespace-only line yields no span.
C12_MarkersOnlyPerLine ==
    Rendered =>
        LET ls == NonBlankLines(mdText)
            ps == NonEmptyParas(frame)
        IN  /\ Len(ps) = Len(ls)
            /\ \A k \in 1..Len(ps) : ParaTokens(ps[k]) = ls[k]
            /\ \A k \in 1..Len(RunsOf(frame)) : OnlyMarkersRemoved(RunsOf(frame)[k])

\* C12 witness: a text with a blank before a recognized token was formatted
C12_Witness ==
    /\ tpc = "rendered"
    /\ \E k \in 1..Len(RunsOf(frame)) : RunsOf(frame)[k].style # {}
    /\ \E k \in 1..Len(RunsOf(frame)) : RunsOf(frame)[k].text = <<" ">>
    /\ Len(PlainText(frame)) < Len(mdText)

\* C13 as stated: "Use **bold** and _italic_ and plain" gives the five spans
\* "Use " plain, "bold" bold, " and " plain, "italic" italic, " and plain" plain.
C13_AsStated ==
    (Rendered /\ mdText = ScenarioText) =>
        /\ Len(frame) = 1
        /\ SpanView(frame[1]) =
              << <<<<"Use", " ">>, {}>>,
                 <<<<"bold">>, {"bold"}>>,
                 <<<<" ", "and", " ">>, {}>>,
                 <<<<"italic">>, {"italic"}>>,
                 <<<<" ", "and", " ", "plain">>, {}>> >>

\* C13 amended: the text gives seven spans, the blank before each marker being a
\* span of its own: "Use", " ", "bold" bold, " and", " ", "italic" italic,
\* " and plain".
C13_SevenSpans ==
    (Rendered /\ mdText = ScenarioText) =>
        /\ Len(frame) = 1
        /\ SpanView(frame[1]) =
              << <<<<"Use">>, {}>>,
                 <<<<" ">>, {}>>,
                 <<<<"bold">>, {"bold"}>>,
                 <<<<" ", "and">>, {}>>,
                 <<<<" ">>, {}>>,
                 <<<<"italic">>, {"italic"}>>,
                 <<<<" ", "and", " ", "plain">>, {}>> >>

\* C13 witness: the scenario text was formatted
C13_Witness ==
    /\ tpc = "rendered"
    /\ mdText = ScenarioText
    /\ Len(frame[1]) = 7

\* C14 as stated: a text with none of the delimiter characters gives exactly one
\* span, whose text is the input and whose style is empty.
C14_AsStated ==
    (Rendered /\ ~HasDelim(mdText)) =>
        /\ Len(frame) = 1
        /\ Len(frame[1]) = 1
        /\ frame[1][1].text = mdText
        /\ frame[1][1].style = {}

\* C14 amended: a text with none of the delimiter characters gives unstyled spans
\* only; when it is one line with a non-blank character the span texts concatenate
\* to the input; when moreover it does not end with a blank there is exactly one
\* span, whose text is the input.
C14_PlainRoundTrip ==
    (Rendered /\ ~HasDelim(mdText)) =>
        /\ Unstyled(frame)
        /\ (~Contains(mdText, <<NL>>) /\ Strip(mdText) # <<>>) =>
              /\ Len(frame) = 1
              /\ ParaText(frame[1]) = mdText
              /\ ~IsSpace(mdText[Len(mdText)]) =>
                    /\ Len(frame[1]) = 1
                    /\ frame[1][1].text = mdText

\* C14 witness: a delimiter-free line with an inner blank became one span
C14_Witness ==
    /\ tpc = "rendered"
    /\ mdText = <<"a", " ", "a">>
    /\ Len(frame[1]) = 1
    /\ frame[1][1].text = mdText

WellFormedPair(line, m) ==
    \E p \in 1..Len(line) :
        /\ OccursAt(line, m, p)
        /\ \E q \in (p + Len(m) + 1)..Len(line) :
              /\ OccursAt(line, m, q)
              /\ \A k \in (p + Len(m))..(q - 1) : line[k] # m[1]
WellFormedLink(line) ==
    \E p \in 1..Len(line) :
        /\ line[p] = "["
        /\ \E q \in (p + 2)..Len(line) :
              /\ OccursAt(line, <<"]", "(">>, q)
              /\ \A k \in (p + 1)..(q - 1) : line[k] # "]"
              /\ \E r \in (q + 3)..Len(line) :
                    /\ line[r] = ")"
                    /\ \A k \in (q + 2)..(r - 1) : line[k] # ")"
WellFormedToken(line) ==
    \/ \E m \in {<<"*", "*">>, <<"_">>, <<"*">>, <<"BACKTICK">>, <<"~", "~">>} : WellFormedPair(line, m)
    \/ WellFormedLink(line)
Malformed(t) ==
    /\ HasDelim(t)
    /\ LET ls == SplitLines(t) IN \A k \in 1..Len(ls) : ~WellFormedToken(ls[k])

\* C16: a text whose markers are all stray or unterminated is emitted whole and
\* literally: every span is unstyled and the spans of each non-blank line
\* concatenate to the line, marker characters included.
C16_FailOpen ==
    (Rendered /\ Malformed(mdText)) =>
        LET ls == NonBlankLines(mdText)
            ps == NonEmptyParas(frame)
        IN  /\ Unstyled(frame)
            /\ Len(ps) = Len(ls)
            /\ \A k \in 1..Len(ps) : ParaText(ps[k]) = ls[k]

\* C16 witness: a stray ** after a word was emitted as a span of its own
C16_Witness ==
    /\ tpc = "rendered"
    /\ Malformed(mdText)
    /\ \E j, k \in 1..Len(RunsOf(frame)) :
          /\ j < k
          /\ RunsOf(frame)[j].text = <<"a">>
          /\ RunsOf(frame)[k].text = <<"*", "*">>

\* the classification of one line of the block as the documents write it
ClassifyAsStated(raw) ==
    LET line == Strip(raw)
    IN  IF line = <<>> THEN <<>>
        ELSE IF StartsWith(line, <<"BULLET", " ">>) \/ StartsWith(line, <<"-", " ">>)
             THEN <<Strip(From(line, 3))>>
        ELSE IF StartsWith(line, <<"*", "*">>) /\ Contains(From(line, 3), <<"*", "*">>)
             THEN <<line>>
        ELSE <<>>
RECURSIVE PointsAsStated(_)
PointsAsStated(ls) ==
    IF ls = <<>> THEN <<>> ELSE ClassifyAsStated(Head(ls)) \o PointsAsStated(Tail(ls))

\* C17 as stated: each non-blank line of the focal block, in order, gives the
\* line without its two-character marker when it starts with the bullet
\* character or a hyphen and a space, else the whole line when it starts with **
\* and holds a second ** later, else nothing.
C17_AsStated ==
    (Returned /\ FocalStart(content) # 0)
        => rec.focal_points = PointsAsStated(FocalBlock(content))

\* the lines between the "## Article Content" heading and the next line that
\* starts a heading of level 3 or more
BlockAsStated(s) ==
    LET ls == SplitLines(s)
        i  == MinOrZero({k \in 1..Len(ls) : EndsWith(ls[k], H2("Article Content"))})
        j  == MinOrZero({k \in (i + 1)..Len(ls) : StartsWith(ls[k], <<"#", "#", "#">>)})
    IN  IF i = 0 THEN <<>> ELSE SubSeq(ls, i + 1, IF j = 0 THEN Len(ls) ELSE j - 1)

\* C18 as stated: the focal points come from the lines between the content
\* heading and the next heading of level 3 or more, and from no line after it.
C18_AsStated ==
    Returned => rec.focal_points = CollectPoints(impl, BlockAsStated(content))

\* the body of one language track: from its heading to the heading of the other
\* track or the next level-2 heading, whichever comes first, trimmed
TrackBody(s, own, other) ==
    LET pos   == Find(s, own, 1)
        start == pos + Len(own)
        ends  == {Find(s, other, start), Find(s, <<NL, "#", "#", " ">>, start)} \ {0}
    IN  IF pos = 0 THEN <<>> ELSE NotesSlice(s, start, MinOrZero(ends))
NotesAsStated(s) ==
    LET it == TrackBody(s, ItalianHeader, EnglishHeader)
        en == TrackBody(s, EnglishHeader, ItalianHeader)
    IN  Strip((IF it # <<>> THEN <<"**Italian Notes:**", NL>> \o it \o <<NL, NL>> ELSE <<>>)
              \o (IF en # <<>> THEN <<"**English Notes:**", NL>> \o en ELSE <<>>))

\* C19 as stated (markdown_to_ppt.py): the notes are the bodies of the two
\* language tracks, in either order of their headings, each ended by the other
\* heading or the next level-2 heading, each under its label, a blank line between.
C19_AsStated ==
    (Returned /\ impl = "ppt") => rec.speaker_notes = NotesAsStated(content)

\* the trimmed line that follows the first line that is exactly "## <label>"
ExactSection(s, label) ==
    LET ls == SplitLines(s)
        i  == MinOrZero({k \in 1..(Len(ls) - 1) : ls[k] = H2(label)})
    IN  IF i = 0 THEN <<>> ELSE Strip(ls[i + 1])

\* C20 as stated: date, link and literal image are the trimmed line after the
\* level-2 heading with the exact label; a heading of another level or wording
\* leaves the field empty.
C20_AsStated ==
    /\ pc \in {"fetch", "rest", "done", "rendered"} =>
          /\ rec.date = ExactSection(content, "Article Date")
          /\ rec.link = ExactSection(content, "Article Url")
    /\ pc \in {"fetch", "rest"} => rec.image = ExactSection(content, "Article Image")

\* the index of the first line that holds a non-blank character, 0 when none
FirstNonBlank(ls) == MinOrZero({k \in 1..Len(ls) : Strip(ls[k]) # <<>>})

FetchFailed == Returned /\ rec.link # <<>> /\ calls = 1 /\ fResult = None

\* C22 as stated: when the fetch on the link fails, a literal image of the
\* document is dropped and the returned image is empty.
C22_AsStated ==
    (FetchFailed /\ LiteralImage(impl, content) # <<>>) => rec.image = <<>>

\* C22 amended: when the fetch on the link fails, the returned image is the
\* literal image of the document (empty only when the document has none).
C22_FailedFetchKeepsLiteral ==
    FetchFailed => rec.image = LiteralImage(impl, content)

\* C22 witness: literal image "lit", three failed GETs, returned image "lit"
C22_Witness ==
    /\ pc = "done"
    /\ rec.link = <<"link">>
    /\ Cardinality(GetIdx) = 3
    /\ fResult = None
    /\ LiteralImage(impl, content) = <<"lit">>
    /\ rec.image = <<"lit">>

\* the kinds of token of the markup: a token is a marker, one or more characters
\* other than the marker's, and the marker again; or [text](target)
ExactPair(tok, m) ==
    /\ Len(tok) > 2 * Len(m)
    /\ StartsWith(tok, m)
    /\ EndsWith(tok, m)
    /\ \A k \in (Len(m) + 1)..(Len(tok) - Len(m)) : tok[k] # m[1]
Inner(tok, n) == SubSeq(tok, n + 1, Len(tok) - n)
BracketEnd(tok) == MinOrZero({k \in 1..Len(tok) : tok[k] = "]"})
ExactLink(tok) ==
    LET b == BracketEnd(tok)
    IN  /\ Len(tok) >= 6
        /\ tok[1] = "["
        /\ b > 2
        /\ OccursAt(tok, <<"]", "(">>, b)
        /\ Len(tok) > b + 2
        /\ tok[Len(tok)] = ")"
        /\ \A k \in (b + 2)..(Len(tok) - 1) : tok[k] # ")"
TokenKind(tok) ==
    IF ExactPair(tok, <<"*", "*">>) THEN "bold"
    ELSE IF ExactPair(tok, <<"_">>) \/ ExactPair(tok, <<"*">>) THEN "italic"
    ELSE IF ExactPair(tok, <<"BACKTICK">>) THEN "code"
    ELSE IF ExactPair(tok, <<"~", "~">>) THEN "strikethrough"
    ELSE IF ExactLink(tok) THEN "link"
    ELSE "plain"

\* what the span of a token of each kind has to be
SpanOfKind(r) ==
    LET kind == TokenKind(r.token)
    IN  /\ r.style = (IF kind = "plain" THEN {} ELSE {kind})
        /\ r.text = (IF kind \in {"bold", "strikethrough"} THEN Inner(r.token, 2)
                     ELSE IF kind \in {"italic", "code"} THEN Inner(r.token, 1)
                     ELSE IF kind = "link" THEN SubSeq(r.token, 2, BracketEnd(r.token) - 1)
                     ELSE r.token)
        /\ r.link = (IF kind = "link"
                     THEN SubSeq(r.token, BracketEnd(r.token) + 2, Len(r.token) - 1)
                     ELSE <<>>)

\* C23: every span comes from one token and carries exactly the one style flag
\* of the kind of its token, its text being the token without the markers of
\* that kind (for a link the bracket text, the target being the link target); a
\* plain run carries no flag, and only a span with the link flag has a target.
C23_OneFlagPerToken ==
    Rendered =>
        \A k \in 1..Len(RunsOf(frame)) :
            LET r == RunsOf(frame)[k]
            IN  /\ SpanOfKind(r)
                /\ Cardinality(r.style) <= 1
                /\ (r.link # <<>> => "link" \in r.style)

\* C23 witness: a link token before a plain run gave a link span with its
\* target and an unstyled span
C23_Witness ==
    /\ tpc = "rendered"
    /\ mdText = <<"[", "a", "]", "(", "u", ")", " ", "a">>
    /\ Len(RunsOf(frame)) = 2
    /\ RunsOf(frame)[1] = [text |-> <<"a">>, style |-> {"link"}, link |-> <<"u">>,
                           token |-> <<"[", "a", "]", "(", "u", ")">>]
    /\ RunsOf(frame)[2].style = {}
    /\ RunsOf(frame)[2].text = <<" ", "a">>

\* the slides of the files whose processing does not raise, in file order
RECURSIVE SlidesOfProcessed(_, _)
SlidesOfProcessed(fs, k) ==
    IF k > Len(fs) THEN <<>>
    ELSE (IF fs[k] = "ok" THEN <<Slide(k, "cover"), Slide(k, "content")>> ELSE <<>>)
         \o SlidesOfProcessed(fs, k + 1)
ProcessedFiles(fs) == {k \in 1..Len(fs) : fs[k] = "ok"}

\* C24 as stated: a file whose processing raises adds nothing to the saved output
\* and is not counted, the other files are processed in file order, and the output
\* is saved exactly when at least one file was processed.
C24_AsStated ==
    mpc = "done" =>
        /\ saved = "saved" => deck = SlidesOfProcessed(files, 1)
        /\ processed_count = Cardinality(ProcessedFiles(files))
        /\ (saved = "saved") <=> (ProcessedFiles(files) # {})

\* One call of the fetcher of script i driven by the outcomes outs, one per GET,
\* from attempt a and outcome k on: the GETs made, the waits slept, the value
\* returned; `complete` is FALSE when the call would go on to a further GET
RECURSIVE FetchRun(_, _, _, _)
FetchRun(i, outs, a, k) ==
    IF a >= MaxRetries THEN [gets |-> k - 1, waits |-> <<>>, result |-> None, complete |-> TRUE]
    ELSE IF k > Len(outs) THEN [gets |-> k - 1, waits |-> <<>>, result |-> None, complete |-> FALSE]
    ELSE IF outs[k].type = "resp"
         THEN IF OgImageSearch(outs[k].body) # None
              THEN [gets |-> k, waits |-> <<>>, result |-> OgImageSearch(outs[k].body),
                    complete |-> TRUE]
              ELSE IF NoMatchNext(i, a).fpc = "try"
                   THEN FetchRun(i, outs, NoMatchNext(i, a).attempt, k + 1)
                   ELSE [gets |-> k, waits |-> <<>>, result |-> None, complete |-> TRUE]
         ELSE IF Caught(outs[k].type) /\ RetriesRemain(a)
              THEN LET r == FetchRun(i, outs, a + 1, k + 1)
                   IN  [r EXCEPT !.waits = <<WaitTime(i, a)>> \o @]
              ELSE [gets |-> k, waits |-> <<>>, result |-> None, complete |-> TRUE]

\* the outcomes of the GETs of the call and its waits, read off the history
SeenOutcomes ==
    LET gs == SelectSeq(log, LAMBDA e : e.ev = "get")
    IN  [k \in 1..Len(gs) |-> gs[k].out]
SeenWaits ==
    LET ss == SelectSeq(log, LAMBDA e : e.ev = "sleep")
    IN  [k \in 1..Len(ss) |-> ss[k].d]
Observed ==
    [gets |-> Len(SeenOutcomes), waits |-> SeenWaits, result |-> fResult, complete |-> TRUE]

\* C25 as stated: on the outcomes a finished call has met, the fetcher of either
\* script makes the same number of GETs, sleeps the same waits and returns the
\* same value as the call observed.
C25_AsStated ==
    fpc = "done" => \A i \in Impls : FetchRun(i, SeenOutcomes, 0, 1) = Observed

====
